---- MODULE Spec2Model ----
(***************************************************************************)
(* Online bookstore (Flask + SQLAlchemy on SQLite): registration, login,   *)
(* logout and the order-placement transaction of src/app.py, over the      *)
(* tables of src/models.py.                                                *)
(*                                                                         *)
(* Spec      the handlers, each request served as one step.                *)
(* SpecPrice the same with the catalog changing a book's sale_price.       *)
(* SpecConc  create_order served by two threads, statement by statement.   *)
(* SpecCat   get_categories over every parent_id assignment, call by call. *)
(*                                                                         *)
(* Abstractions: sale prices are integers (tenths of a currency unit, the  *)
(* seed rounds sale_price to one decimal); the catalog holds the books of  *)
(* Books; titles, authors and categories play no part in the order flow;   *)
(* one login session is followed.                                          *)
(***************************************************************************)
EXTENDS Integers, Sequences, FiniteSets, TLC

\* ---------------------------------------------------------------- bounds
\* rows of tables orders and order_item the model explores: a request is made
\* only while the rows it would add (one Order, one OrderItem per entry) fit
MaxRows == 4
\* rows of table category
MaxCats == 3

\* ------------------------------------------------------------ input sets
Books == {1, 2}                       \* ids of the rows of table book
BookIds == Books \cup {3}             \* ids a request may name (3: no such row)
Qtys == {-1, 1, 2}                    \* request.json qty is not validated
Threads == {1, 2}                     \* request threads of the server
Usernames == {"admin", "bob"}
Passwords == {"123456", "pw"}          \* passwords tried at login
NewPasswords == {"pw"}                \* passwords chosen at registration
Prices == {3, 5}
Cats == 1..MaxCats                    \* ids of the rows of table category

\* a cart entry {id, qty}; the unknown id is sent with one quantity only
Item == [id : Books, qty : Qtys] \cup [id : BookIds \ Books, qty : {1}]
RECURSIVE SeqsUpTo(_, _)
SeqsUpTo(S, n) ==
    IF n = 0 THEN {<< >>}
    ELSE LET shorter == SeqsUpTo(S, n - 1)
         IN  shorter \cup {Append(s, x) : s \in {q \in shorter : Len(q) = n - 1}, x \in S}
\* the carts submitted: each leaves room for one more order
Carts == SeqsUpTo(Item, MaxRows - 2)

\* flask-login's AnonymousUserMixin: no customer is logged in
Anonymous == 0
\* no connection holds the write lock
NoThread == 0
\* category.parent_id IS NULL
Null == 0
\* nested to_dict calls the interpreter allows before it raises RecursionError;
\* deeper than any tree the category table can hold
RecursionLimit == MaxCats + 2

VARIABLES
    stock,          \* book.stock, by book id
    sales_count,    \* book.sales_count, by book id
    sale_price,     \* book.sale_price, by book id
    customers,      \* table customer: sequence of rows, id = index
    session,        \* flask-login's session: the logged-in customer id, or Anonymous
    orders,         \* table orders: sequence of rows, id = index
    order_items,    \* table order_item: sequence of rows, id = index
    last,           \* the response of the latest request
    pc,             \* per thread: where its in-flight create_order stands
    tx,             \* per thread: the SQLAlchemy session of its in-flight request
    writer,         \* the thread whose connection holds SQLite's write lock, or NoThread
    parent_id,      \* category.parent_id, by category id (Null: a root)
    cat_pc,         \* where the in-flight get_categories stands: "idle" or "run"
    roots,          \* get_categories: the roots not yet serialized
    calls,          \* the to_dict calls in progress, outermost first
    out             \* the dicts built so far, as (id, depth) in the order created

vars == <<stock, sales_count, sale_price, customers, session, orders, order_items,
          last, pc, tx, writer, parent_id, cat_pc, roots, calls, out>>
db == <<stock, sales_count, sale_price, customers, orders, order_items>>
conc == <<pc, tx, writer>>
cat == <<parent_id, cat_pc, roots, calls, out>>

\* ------------------------------------------------------------- passwords
\* werkzeug generate_password_hash / check_password_hash
generate_password_hash(password) == <<"pbkdf2:sha256", password>>
check_password_hash(hash, password) == hash = generate_password_hash(password)
check_password(user, password) == check_password_hash(user.password_hash, password)

\* Customer.query.filter_by(username=...).first(): the id, or Anonymous when absent
FindUser(username) ==
    LET ids == {i \in 1..Len(customers) : customers[i].username = username}
    IN  IF ids = {} THEN Anonymous ELSE CHOOSE i \in ids : \A j \in ids : i <= j

\* what the client sees of a request: the handler, the HTTP status, the error
\* raised ("" when none) and, for a create_order run as one step, the cart sent
Response(op, cart, status, err) ==
    [op |-> op, cart |-> cart, status |-> status, err |-> err]

\* --------------------------------------------------- the order transaction
\* A fresh session after db.session.add(order); db.session.flush()
NewTx(uid, cart) ==
    [customer_id |-> uid, order_id |-> Len(orders) + 1, cart |-> cart, n |-> 0,
     book |-> << >>, total |-> 0, items |-> << >>, err |-> ""]

NoTx == NewTx(Anonymous, << >>)

\* mutant: every lookup reads the committed row, blind to the session's own changes
QueryGet_Committed(t, id) ==
    [stock |-> stock[id], sales_count |-> sales_count[id], sale_price |-> sale_price[id]]

\* mutant: every order item is written with quantity 1
NewOrderItem_UnitQty(t, id, book, qty) ==
    [order_id |-> t.order_id, book_id |-> id, quantity |-> 1, price |-> book.sale_price]

\* Book.query.get(id) for an id of the catalog: the session's own object if it
\* is already in the identity map, else the committed row
QueryGet(t, id) ==
    IF id \in DOMAIN t.book THEN t.book[id]
    ELSE [stock |-> stock[id], sales_count |-> sales_count[id],
          sale_price |-> sale_price[id]]

\* mutant: the test lets one unit too many through
Shortage_OffByOne(book, qty) == book.stock + 1 < qty

\* the stock test of the loop
Shortage(book, qty) == book.stock < qty

\* mutant: the sale is not counted
Sell_NoSales(book, qty) == [book EXCEPT !.stock = @ - qty]

\* book.stock -= qty; book.sales_count += qty
Sell(book, qty) ==
    [book EXCEPT !.stock = @ - qty, !.sales_count = @ + qty]

\* OrderItem(order_id, book_id, quantity, price=book.sale_price)
NewOrderItem(t, id, book, qty) ==
    [order_id |-> t.order_id, book_id |-> id, quantity |-> qty, price |-> book.sale_price]

\* the body of the loop from the stock test on, for a book that was found
ServeItem(t, i) ==
    LET book == QueryGet(t, i.id) IN
    IF Shortage(book, i.qty)
    THEN [t EXCEPT !.n = @ + 1, !.err = "InsufficientStock"]
    ELSE [t EXCEPT !.n = @ + 1,
                   !.book = (i.id :> Sell(book, i.qty)) @@ t.book,
                   !.total = @ + book.sale_price * i.qty,
                   !.items = Append(@, NewOrderItem(t, i.id, book, i.qty))]

\* mutant: an entry whose book is not found is skipped
ProcessItem_SkipUnknown(t, i) ==
    IF i.id \notin Books THEN [t EXCEPT !.n = @ + 1] ELSE ServeItem(t, i)

\* one pass of the for loop: Book.query.get returns None for an unknown id, and
\* None.stock raises AttributeError
ProcessItem(t, i) ==
    IF i.id \notin Books
    THEN [t EXCEPT !.n = @ + 1, !.err = "AttributeError"]
    ELSE ServeItem(t, i)

\* the for loop: it ends at the first exception
RECURSIVE RunItems(_, _)
RunItems(t, items) ==
    IF items = << >> \/ t.err # "" THEN t
    ELSE RunItems(ProcessItem(t, Head(items)), Tail(items))

\* mutant: the provisional total is kept
FinalTotal_Provisional(t) == 0

\* order.total_amount = total
FinalTotal(t) == t.total

\* mutant: an order item shows its book's current sale_price (a reference, not a copy)
Commit_Reprices(t) ==
    /\ stock' = [b \in Books |-> IF b \in DOMAIN t.book THEN t.book[b].stock ELSE stock[b]]
    /\ sales_count' = [b \in Books |->
                         IF b \in DOMAIN t.book THEN t.book[b].sales_count ELSE sales_count[b]]
    /\ orders' = Append(orders, [id |-> t.order_id, customer_id |-> t.customer_id,
                                 total_amount |-> FinalTotal(t)])
    /\ order_items' = [k \in 1..Len(order_items) |->
                          [order_items[k] EXCEPT !.price = sale_price[order_items[k].book_id]]]
                      \o t.items
    /\ UNCHANGED <<sale_price, customers>>

\* db.session.commit(): the dirty Book rows, the Order and its OrderItems
Commit(t) ==
    /\ stock' = [b \in Books |-> IF b \in DOMAIN t.book THEN t.book[b].stock ELSE stock[b]]
    /\ sales_count' = [b \in Books |->
                         IF b \in DOMAIN t.book THEN t.book[b].sales_count ELSE sales_count[b]]
    /\ orders' = Append(orders, [id |-> t.order_id, customer_id |-> t.customer_id,
                                 total_amount |-> FinalTotal(t)])
    /\ order_items' = order_items \o t.items
    /\ UNCHANGED <<sale_price, customers>>

\* mutant: the Book rows flushed before the exception stay
Rollback_KeepsBooks(t) ==
    /\ stock' = [b \in Books |-> IF b \in DOMAIN t.book THEN t.book[b].stock ELSE stock[b]]
    /\ sales_count' = [b \in Books |->
                         IF b \in DOMAIN t.book THEN t.book[b].sales_count ELSE sales_count[b]]
    /\ UNCHANGED <<sale_price, customers, orders, order_items>>

\* db.session.rollback()
Rollback(t) == UNCHANGED db

\* ---------------------------------------------------------------- handlers
register(username, password) ==
    /\ IF FindUser(username) # Anonymous
       THEN /\ UNCHANGED customers
            /\ last' = Response("register", << >>, 400, "exists")
       ELSE /\ customers' = Append(customers,
                               [username |-> username,
                                password_hash |-> generate_password_hash(password)])
            /\ last' = Response("register", << >>, 200, "")
    /\ UNCHANGED <<stock, sales_count, sale_price, orders, order_items, session, conc>>
    /\ UNCHANGED cat

login(username, password) ==
    LET user == FindUser(username) IN
    /\ IF user # Anonymous /\ check_password(customers[user], password)
       THEN /\ session' = user
            /\ last' = Response("login", << >>, 200, "")
       ELSE /\ UNCHANGED session
            /\ last' = Response("login", << >>, 401, "")
    /\ UNCHANGED <<db, conc>>
    /\ UNCHANGED cat

logout ==
    /\ IF session = Anonymous
       THEN /\ UNCHANGED session
            /\ last' = Response("logout", << >>, 401, "")
       ELSE /\ session' = Anonymous
            /\ last' = Response("logout", << >>, 200, "")
    /\ UNCHANGED <<db, conc>>
    /\ UNCHANGED cat

\* mutant: the route is not guarded
LoginRequired_Off == TRUE

\* @login_required on /api/order
LoginRequired == session # Anonymous

\* the rows of the request fit the explored table sizes
Fits(cart) == Len(orders) + Len(order_items) + 1 + Len(cart) <= MaxRows

\* the whole handler, run by one request with no other request in flight
create_order(cart) ==
    /\ Fits(cart)
    /\ IF ~LoginRequired
       THEN /\ UNCHANGED db
            /\ last' = Response("create_order", << >>, 401, "")
       ELSE LET t == RunItems(NewTx(session, cart), cart) IN
            IF t.err = ""
            THEN /\ Commit(t)
                 /\ last' = Response("create_order", cart, 200, "")
            ELSE /\ Rollback(t)
                 /\ last' = Response("create_order", cart, 400, t.err)
    /\ UNCHANGED <<session, conc>>
    /\ UNCHANGED cat

\* ------------------------------------------------------------------- Init
\* init_data: the seeded catalog and the admin customer; no orders
InitStock == [b \in Books |-> b]
InitPrice == [b \in Books |-> IF b = 1 THEN 3 ELSE 5]
InitSales == [b \in Books |-> 0]

\* init_data: the first root category and its sub-categories
InitParent == [c \in Cats |-> IF c = 1 THEN Null ELSE 1]

\* no get_categories in flight
NoWalk ==
    /\ cat_pc = "idle"
    /\ roots = {}
    /\ calls = << >>
    /\ out = << >>

InitShop ==
    /\ stock = InitStock
    /\ sales_count = InitSales
    /\ sale_price = InitPrice
    /\ customers = <<[username |-> "admin",
                      password_hash |-> generate_password_hash("123456")]>>
    /\ session = Anonymous
    /\ orders = << >>
    /\ order_items = << >>
    /\ last = Response("init", << >>, 200, "")
    /\ pc = [r \in Threads |-> "idle"]
    /\ tx = [r \in Threads |-> NoTx]
    /\ writer = NoThread

Init ==
    /\ InitShop
    /\ parent_id = InitParent
    /\ NoWalk

Next ==
    \/ \E u \in Usernames, p \in NewPasswords : register(u, p)
    \/ \E u \in Usernames, p \in Passwords : login(u, p)
    \/ logout
    \/ \E cart \in Carts : create_order(cart)

Spec == Init /\ [][Next]_vars

\* ------------------------------------------------ the catalog's price change
\* No handler of app.py writes book.sale_price; the catalog store's owner does.
UpdateSalePrice(b, p) ==
    /\ p # sale_price[b]
    /\ sale_price' = [sale_price EXCEPT ![b] = p]
    /\ last' = Response("catalog", << >>, 200, "")
    /\ UNCHANGED <<stock, sales_count, customers, orders, order_items, session, conc>>
    /\ UNCHANGED cat

NextPrice ==
    \/ \E u \in Usernames, p \in Passwords : login(u, p)
    \/ logout
    \/ \E cart \in Carts : create_order(cart)
    \/ \E b \in Books, p \in Prices : UpdateSalePrice(b, p)

SpecPrice == Init /\ [][NextPrice]_vars

\* --------------------------------------------- create_order, step by step
\* Two threads of the server run the handler at once. Each has its own
\* SQLAlchemy session and SQLite connection. SQLite lets one connection write:
\* the INSERT of the provisional Order (flush) takes the database's write lock,
\* which the connection keeps until its commit or rollback.

\* the rows the requests in flight would add
RowsInFlight ==
    LET rows(r) == IF pc[r] = "idle" THEN 0 ELSE 1 + Len(tx[r].cart)
    IN  rows(1) + rows(2)

\* the request arrives: @login_required, then request.json and current_user.id
Request(r, cart) ==
    /\ pc[r] = "idle"
    /\ Len(orders) + Len(order_items) + RowsInFlight + 1 + Len(cart) <= MaxRows
    /\ IF ~LoginRequired
       THEN /\ last' = Response("create_order", << >>, 401, "")
            /\ UNCHANGED <<pc, tx>>
       ELSE /\ pc' = [pc EXCEPT ![r] = "flush"]
            /\ tx' = [tx EXCEPT ![r] = [NoTx EXCEPT !.customer_id = session, !.cart = cart]]
            /\ UNCHANGED last
    /\ UNCHANGED <<db, session, writer>>
    /\ UNCHANGED cat

\* mutant: the INSERT takes no lock (a storage engine with row locks only)
Flush_NoLock(r) ==
    /\ pc[r] = "flush"
    /\ pc' = [pc EXCEPT ![r] = "loop"]
    /\ tx' = [tx EXCEPT ![r] = NewTx(tx[r].customer_id, tx[r].cart)]
    /\ UNCHANGED <<db, session, last, writer>>
    /\ UNCHANGED cat

\* db.session.add(order); db.session.flush(): BEGIN, INSERT INTO orders
Flush(r) ==
    /\ pc[r] = "flush"
    /\ writer = NoThread
    /\ writer' = r
    /\ pc' = [pc EXCEPT ![r] = "loop"]
    /\ tx' = [tx EXCEPT ![r] = NewTx(tx[r].customer_id, tx[r].cart)]
    /\ UNCHANGED <<db, session, last>>
    /\ UNCHANGED cat

\* the flush gives up waiting for the lock: OperationalError (database is
\* locked), caught by the handler's except branch
FlushBusy(r) ==
    /\ pc[r] = "flush"
    /\ writer \notin {NoThread, r}
    /\ Rollback(tx[r])
    /\ pc' = [pc EXCEPT ![r] = "idle"]
    /\ tx' = [tx EXCEPT ![r] = NoTx]
    /\ last' = Response("create_order", << >>, 400, "OperationalError")
    /\ UNCHANGED <<session, writer>>
    /\ UNCHANGED cat

\* one pass of the for loop
Step(r) ==
    /\ pc[r] = "loop"
    /\ tx[r].err = ""
    /\ tx[r].n < Len(tx[r].cart)
    /\ tx' = [tx EXCEPT ![r] = ProcessItem(tx[r], tx[r].cart[tx[r].n + 1])]
    /\ UNCHANGED <<db, session, last, pc, writer>>
    /\ UNCHANGED cat

\* the lock goes with the end of the transaction
Release(r) == writer' = IF writer = r THEN NoThread ELSE writer

\* after the loop: order.total_amount = total; db.session.commit()
CommitOrder(r) ==
    /\ pc[r] = "loop"
    /\ tx[r].err = ""
    /\ tx[r].n = Len(tx[r].cart)
    /\ Commit(tx[r])
    /\ Release(r)
    /\ pc' = [pc EXCEPT ![r] = "idle"]
    /\ tx' = [tx EXCEPT ![r] = NoTx]
    /\ last' = Response("create_order", << >>, 200, "")
    /\ UNCHANGED session
    /\ UNCHANGED cat

\* an exception of the loop: db.session.rollback()
Abort(r) ==
    /\ pc[r] = "loop"
    /\ tx[r].err # ""
    /\ Rollback(tx[r])
    /\ Release(r)
    /\ pc' = [pc EXCEPT ![r] = "idle"]
    /\ tx' = [tx EXCEPT ![r] = NoTx]
    /\ last' = Response("create_order", << >>, 400, tx[r].err)
    /\ UNCHANGED session
    /\ UNCHANGED cat

NextConc ==
    \/ \E u \in Usernames, p \in Passwords : login(u, p)
    \/ logout
    \/ \E r \in Threads, cart \in Carts : Request(r, cart)
    \/ \E r \in Threads : Flush(r)
    \/ \E r \in Threads : FlushBusy(r)
    \/ \E r \in Threads : Step(r)
    \/ \E r \in Threads : CommitOrder(r)
    \/ \E r \in Threads : Abort(r)

SpecConc == Init /\ [][NextConc]_vars

\* ------------------------------------------- get_categories, call by call
\* The category table with any parent_id values: the schema has the foreign
\* key only, so a row may name itself or a descendant as its parent.

\* mutant: the serialization starts from every category
Roots_All == Cats

\* Category.query.filter_by(parent_id=None).all()
Roots == {c \in Cats : parent_id[c] = Null}

\* the relationship Category.children: the rows whose parent_id is c
children(c) == {d \in Cats : parent_id[d] = c}

\* the request arrives: the roots are queried
get_categories ==
    /\ cat_pc = "idle"
    /\ cat_pc' = "run"
    /\ roots' = Roots
    /\ calls' = << >>
    /\ out' = << >>
    /\ UNCHANGED <<db, session, last, conc, parent_id>>

\* c.to_dict() is entered: its dict is created and its children are loaded;
\* past the interpreter's limit the call raises and the request answers 500
to_dict(c, callers) ==
    IF Len(callers) >= RecursionLimit
    THEN /\ cat_pc' = "idle"
         /\ calls' = << >>
         /\ out' = << >>
         /\ last' = Response("get_categories", << >>, 500, "RecursionError")
    ELSE /\ calls' = Append(callers, [id |-> c, todo |-> children(c)])
         /\ out' = Append(out, [id |-> c, depth |-> Len(callers) + 1])
         /\ UNCHANGED <<cat_pc, last>>

\* [c.to_dict() for c in roots]: the next root (the query has no ORDER BY)
SerializeRoot ==
    /\ cat_pc = "run"
    /\ calls = << >>
    /\ \E c \in roots :
         /\ roots' = roots \ {c}
         /\ to_dict(c, calls)
    /\ UNCHANGED <<db, session, conc, parent_id>>

\* [child.to_dict() for child in self.children]: the next child
SerializeChild ==
    /\ cat_pc = "run"
    /\ calls # << >>
    /\ \E c \in calls[Len(calls)].todo :
         /\ to_dict(c, [calls EXCEPT ![Len(calls)].todo = @ \ {c}])
    /\ UNCHANGED <<db, session, conc, parent_id, roots>>

\* the innermost to_dict has served all its children and returns its dict
ReturnDict ==
    /\ cat_pc = "run"
    /\ calls # << >>
    /\ calls[Len(calls)].todo = {}
    /\ calls' = SubSeq(calls, 1, Len(calls) - 1)
    /\ UNCHANGED <<db, session, last, conc, parent_id, cat_pc, roots, out>>

\* return jsonify([...]) once every root is serialized
Respond ==
    /\ cat_pc = "run"
    /\ calls = << >>
    /\ roots = {}
    /\ cat_pc' = "idle"
    /\ last' = Response("get_categories", << >>, 200, "")
    /\ UNCHANGED <<db, session, conc, parent_id, roots, calls, out>>

\* the steps of a request in flight
Serialize == SerializeRoot \/ SerializeChild \/ ReturnDict \/ Respond

\* the category table holds any parent_id values
InitCat ==
    /\ InitShop
    /\ parent_id \in [Cats -> Cats \cup {Null}]
    /\ NoWalk

NextCat ==
    \/ get_categories
    \/ SerializeRoot
    \/ SerializeChild
    \/ ReturnDict
    \/ Respond

\* the server runs a request it has received to its end
SpecCat == InitCat /\ [][NextCat]_vars /\ WF_vars(Serialize)

\* ------------------------------------------------- what the claims speak of
RECURSIVE QtyBefore(_, _, _)
\* the quantity the entries before position j of a cart ask of book b
QtyBefore(cart, j, b) ==
    IF j <= 1 THEN 0
    ELSE QtyBefore(cart, j - 1, b) + (IF cart[j - 1].id = b THEN cart[j - 1].qty ELSE 0)

\* the whole quantity a cart asks of book b
QtyOf(cart, b) == QtyBefore(cart, Len(cart) + 1, b)

\* entry j asks for more than is left of its book once the entries before it are served
ShortAt(cart, j) ==
    /\ cart[j].id \in Books
    /\ cart[j].qty > stock[cart[j].id] - QtyBefore(cart, j, cart[j].id)

UnknownAt(cart, j) == cart[j].id \notin Books

\* the loop gets to entry j: no entry before it raises
ReachesAt(cart, j) == \A i \in 1..(j - 1) : ~ShortAt(cart, i) /\ ~UnknownAt(cart, i)

ReachesShortage(cart) == \E j \in 1..Len(cart) : ReachesAt(cart, j) /\ ShortAt(cart, j)

\* a step of create_order that got past the login gate
OrderStep == last'.op = "create_order" /\ last'.status # 401

NothingPersisted ==
    /\ stock' = stock
    /\ sales_count' = sales_count
    /\ orders' = orders
    /\ order_items' = order_items

ItemsOf(o) == {k \in 1..Len(order_items) : order_items[k].order_id = o}

RECURSIVE LineSum(_)
LineSum(ks) ==
    IF ks = {} THEN 0
    ELSE LET k == CHOOSE x \in ks : TRUE
         IN  order_items[k].price * order_items[k].quantity + LineSum(ks \ {k})

\* C1: a create_order that reaches an item asking for more than the book's
\* current stock answers 400 and leaves every book's stock and sales_count, and
\* the orders and order_item tables, as they were before the request.
C1_ShortageAtomic ==
    [][(OrderStep /\ ReachesShortage(last'.cart))
        => (last'.status = 400 /\ last'.err = "InsufficientStock" /\ NothingPersisted)]_vars

\* a failed request whose second entry hit the shortage after its first entry was served
C1_Witness ==
    /\ last.op = "create_order" /\ last.status = 400
    /\ Len(last.cart) = 2
    /\ last.cart[1].id \in Books /\ last.cart[1].qty > 0
    /\ ReachesAt(last.cart, 2) /\ ShortAt(last.cart, 2)

\* C2: a create_order whose cart names a book id that is not in the catalog
\* answers 400 and persists nothing, also when valid entries precede it.
C2_UnknownBookAtomic ==
    [][(OrderStep /\ \E j \in 1..Len(last'.cart) : UnknownAt(last'.cart, j))
        => (last'.status = 400 /\ NothingPersisted)]_vars

\* a failed request whose second entry is unknown and whose first entry was served
C2_Witness ==
    /\ last.op = "create_order" /\ last.status = 400 /\ last.err = "AttributeError"
    /\ Len(last.cart) = 2
    /\ last.cart[1].id \in Books /\ last.cart[1].qty > 0
    /\ ReachesAt(last.cart, 2) /\ UnknownAt(last.cart, 2)

\* C3: a successful create_order lowers the stock of each book by the quantity
\* the cart asks of it and raises its sales_count by the same quantity; a book
\* the cart does not name keeps both.
C3_SuccessEffect ==
    [][(OrderStep /\ last'.status = 200)
        => \A b \in Books :
             /\ stock'[b] = stock[b] - QtyOf(last'.cart, b)
             /\ sales_count'[b] = sales_count[b] + QtyOf(last'.cart, b)]_vars

\* a committed two-entry cart that names one book and leaves the other alone
C3_Witness ==
    /\ last.op = "create_order" /\ last.status = 200
    /\ Len(last.cart) = 2
    /\ \E b \in Books : QtyOf(last.cart, b) = 2 /\ sales_count[b] = 2
    /\ \E b \in Books : \A j \in 1..Len(last.cart) : last.cart[j].id # b

\* C4: every committed order's total_amount is the sum of price * quantity
\* over its order items.
C4_TotalConsistent ==
    \A o \in 1..Len(orders) : orders[o].total_amount = LineSum(ItemsOf(orders[o].id))

\* an order of two items with a total that is not the provisional 0
C4_Witness ==
    \E o \in 1..Len(orders) :
        /\ Cardinality(ItemsOf(orders[o].id)) = 2
        /\ orders[o].total_amount > 0

\* C5: the committed stock of every book is >= 0.
C5_StockNonNegative == \A b \in Books : stock[b] >= 0

\* a sold-out book, and a request for it that was refused
C5_Witness ==
    /\ \E b \in Books : stock[b] = 0 /\ sales_count[b] > 0
    /\ last.op = "create_order" /\ last.err = "InsufficientStock"

\* C6: the committed sales_count of a book never decreases from one state to
\* the next, and it changes only in a step that commits an order naming the book.
C6_SalesMonotone ==
    [][\A b \in Books :
         /\ sales_count'[b] >= sales_count[b]
         /\ sales_count'[b] # sales_count[b]
              => /\ last'.op = "create_order" /\ last'.status = 200
                 /\ \E j \in 1..Len(last'.cart) : last'.cart[j].id = b]_vars

\* C7: every committed order owns at least one order item.
C7_OrderHasItem == \A o \in 1..Len(orders) : ItemsOf(orders[o].id) # {}

\* C8: a step changes or deletes no committed order and no committed order
\* item; the items a step adds belong to the one order it adds and carry the
\* sale_price their book had when the request was made.
C8_OrdersFrozen ==
    [][/\ Len(orders') >= Len(orders)
       /\ \A o \in 1..Len(orders) : orders'[o] = orders[o]
       /\ Len(order_items') >= Len(order_items)
       /\ \A k \in 1..Len(order_items) : order_items'[k] = order_items[k]
       /\ \A k \in (Len(order_items) + 1)..Len(order_items') :
            /\ Len(orders') = Len(orders) + 1
            /\ order_items'[k].order_id = orders'[Len(orders')].id
            /\ order_items'[k].price = sale_price[order_items'[k].book_id]]_vars

\* two orders of the same book at different prices, the earlier one still at
\* the price of its day although the book's price is another now
C8_Witness ==
    \E k1, k2 \in 1..Len(order_items) :
        /\ order_items[k1].order_id < order_items[k2].order_id
        /\ order_items[k1].book_id = order_items[k2].book_id
        /\ order_items[k1].price # order_items[k2].price
        /\ order_items[k1].price # sale_price[order_items[k1].book_id]

\* C9: a create_order made while nobody is logged in answers 401 and persists
\* nothing; an order is committed only for a logged-in customer and carries
\* that customer's id, which no later step changes; the session changes only
\* by a successful login or a logout.
C9_AuthGate ==
    [][/\ (last'.op = "create_order" /\ session = Anonymous)
            => (last'.status = 401 /\ NothingPersisted)
       /\ Len(orders') > Len(orders)
            => /\ session # Anonymous
               /\ session \in 1..Len(customers)
               /\ Len(orders') = Len(orders) + 1
               /\ orders'[Len(orders')].customer_id = session
       /\ \A o \in 1..Len(orders) :
            o <= Len(orders') /\ orders'[o].customer_id = orders[o].customer_id
       /\ session' # session
            => \/ last'.op = "login" /\ last'.status = 200 /\ session' # Anonymous
               \/ last'.op = "logout" /\ last'.status = 200 /\ session' = Anonymous]_vars

\* after a registered customer ordered and logged out, a further request was refused
C9_Witness ==
    /\ last.op = "create_order" /\ last.status = 401
    /\ session = Anonymous
    /\ \E o \in 1..Len(orders) : orders[o].customer_id = 2

RECURSIVE SumQty(_)
SumQty(ks) ==
    IF ks = {} THEN 0
    ELSE LET k == CHOOSE x \in ks : TRUE
         IN  order_items[k].quantity + SumQty(ks \ {k})

\* the quantity of book b in the committed order items
SoldOf(b) == SumQty({k \in 1..Len(order_items) : order_items[k].book_id = b})

\* thread r is in its loop, has passed a stock check and has not committed
PassedCheck(r) == pc[r] = "loop" /\ tx[r].n >= 1 /\ tx[r].err = ""

\* the carts of both requests ask book b for quantities that each fit the
\* committed stock and together exceed it
Contend(r1, r2, b) ==
    /\ QtyOf(tx[r1].cart, b) > 0 /\ QtyOf(tx[r1].cart, b) <= stock[b]
    /\ QtyOf(tx[r2].cart, b) > 0 /\ QtyOf(tx[r2].cart, b) <= stock[b]
    /\ QtyOf(tx[r1].cart, b) + QtyOf(tx[r2].cart, b) > stock[b]

\* C10 as amended: of two concurrent create_order requests at most one is
\* past its flush at a time (the other waits for the write lock or fails on
\* it), so both never pass the stock check before either commits; no stock
\* goes below 0 and what left the stock of a book is what its committed order
\* items hold: no committed quantity rests on stock another order took.
C10_NoDoubleBooking ==
    /\ \A r1, r2 \in Threads : r1 # r2 => ~(pc[r1] = "loop" /\ pc[r2] = "loop")
    /\ \A b \in Books : stock[b] >= 0 /\ InitStock[b] - stock[b] = SoldOf(b)

\* two requests in flight contend for the last units of a book: one has passed
\* its stock check and not committed, the other has been received and waits
C10_Witness ==
    \E r1, r2 \in Threads :
        /\ r1 # r2
        /\ PassedCheck(r1)
        /\ pc[r2] = "flush"
        /\ \E b \in Books : Contend(r1, r2, b)

\* C10 as claimed: the stock check is not protected against a concurrent
\* request, so while one request has passed its check and not committed, a
\* second request that has been received can go on to its own check.
C10_SecondPassesCheck ==
    \A r1, r2 \in Threads :
        (r1 # r2 /\ PassedCheck(r1) /\ pc[r2] = "flush" /\ \E b \in Books : Contend(r1, r2, b))
            => ENABLED Flush(r2)

\* some entry of the cart raises when the entries are served in the order sent,
\* each against what the entries before it left of its book
RaisesInOrder(cart) ==
    \E j \in 1..Len(cart) : ReachesAt(cart, j) /\ (ShortAt(cart, j) \/ UnknownAt(cart, j))

\* C11: the entries of a cart are served in the order sent and each stock test
\* sees what the earlier entries of the same cart took: a create_order succeeds
\* exactly when no entry, served in that order, asks more than is left of its
\* book (or names no book); so a cart succeeds only if, for every book, the
\* quantities of all its entries for that book add up to at most the stock
\* before the request; a cart that asks more of some book fails with 400 and
\* nothing persisted.
C11_RepeatedBook ==
    [][OrderStep =>
         /\ (last'.status = 200) <=> ~RaisesInOrder(last'.cart)
         /\ (last'.status = 200) => \A b \in Books : QtyOf(last'.cart, b) <= stock[b]
         /\ (\E b \in Books : QtyOf(last'.cart, b) > stock[b])
               => (last'.status = 400 /\ NothingPersisted)]_vars

\* a refused cart naming one book twice: each entry alone fits the stock, the
\* second does not fit what the first left
C11_Witness ==
    /\ last.op = "create_order" /\ last.status = 400 /\ last.err = "InsufficientStock"
    /\ Len(last.cart) = 2
    /\ last.cart[1].id = last.cart[2].id
    /\ last.cart[1].qty > 0 /\ last.cart[1].qty <= stock[last.cart[1].id]
    /\ last.cart[2].qty > 0 /\ last.cart[2].qty <= stock[last.cart[2].id]
    /\ QtyOf(last.cart, last.cart[1].id) > stock[last.cart[1].id]

\* C12: under sequential create_order requests, what left the stock of a book
\* is what its sales_count gained and is the quantity its committed order items
\* hold; stock + sales_count of a book is constant.
C12_Conservation ==
    \A b \in Books :
        /\ InitStock[b] - stock[b] = sales_count[b] - InitSales[b]
        /\ sales_count[b] - InitSales[b] = SoldOf(b)
        /\ stock[b] + sales_count[b] = InitStock[b] + InitSales[b]

\* after a committed order took both units of a book, a further request for
\* that book was rolled back
C12_Witness ==
    /\ last.op = "create_order" /\ last.status = 400
    /\ \E b \in Books :
          /\ SoldOf(b) = 2 /\ sales_count[b] = 2 /\ stock[b] = 0
          /\ \E j \in 1..Len(last.cart) : last.cart[j].id = b

RECURSIVE Ancestor(_, _)
\* the category n parent links above c, or Null when the chain ends before
Ancestor(c, n) ==
    IF n = 0 \/ c = Null THEN c ELSE Ancestor(parent_id[c], n - 1)

\* c is its own ancestor: it parents itself or lies on a longer parent cycle
OnCycle(c) == \E n \in 1..MaxCats : Ancestor(c, n) = c

\* the parent chain of c ends at a root (it leads into no cycle)
UnderRoot(c) == Ancestor(c, MaxCats) = Null

\* the ids of the dicts built
Serialized == {out[k].id : k \in 1..Len(out)}

\* C13: whatever the parent_id values of the category table (a row parenting
\* itself and parent cycles included), a get_categories request ends, and it
\* ends with its answer (no RecursionError); the to_dict calls never nest
\* deeper than there are categories; no category is serialized twice, and the
\* categories serialized are those whose parent chain ends at a root.
C13_Terminates ==
    /\ [](/\ \A j, k \in 1..Len(out) : out[j].id = out[k].id => j = k
          /\ Len(calls) <= MaxCats
          /\ Serialized \subseteq {c \in Cats : UnderRoot(c)}
          /\ last.op = "get_categories"
               => /\ last.status = 200
                  /\ cat_pc = "idle" => Serialized = {c \in Cats : UnderRoot(c)})
    /\ (cat_pc = "run") ~> (cat_pc = "idle" /\ last.op = "get_categories" /\ last.status = 200)

\* an answered request over a table with a root, a child of it, and a category
\* on a parent cycle: the root and its child are in the answer, nested
C13_Witness ==
    /\ cat_pc = "idle" /\ last.op = "get_categories" /\ last.status = 200
    /\ \E c \in Cats : OnCycle(c)
    /\ Len(out) = 2 /\ out[1].depth = 1 /\ out[2].depth = 2

====
